---- MODULE Spec2Model ----
(***************************************************************************)
(* The pizza order form of frontend/components/Form.js (the revision that  *)
(* starts at line 215, with the touched / hasAttemptedSubmit state).       *)
(*                                                                         *)
(* The component is a set of React state cells, event handlers that run    *)
(* to completion, and two asynchronous continuations:                      *)
(*   - the re-validation effect, which awaits validateForm(formData) for   *)
(*     the snapshot it was started with and then writes errors and         *)
(*     isSubmitDisabled;                                                   *)
(*   - handleSubmit, which awaits validateForm(formData) for the snapshot  *)
(*     of the render it was invoked from and then runs to its end.         *)
(* Each awaited validation is a message in flight: any other event may     *)
(* take place before it resolves, and the resolutions may come in any      *)
(* order.  Rendering and the effects of a render are taken together with   *)
(* the state change that causes them.                                      *)
(*                                                                         *)
(* Strings that the code measures, trims or concatenates (fullName, the    *)
(* confirmation message) are sequences of one-character strings; the       *)
(* other strings are atoms.                                                *)
(***************************************************************************)
EXTENDS Integers, Sequences, FiniteSets, TLC

VARIABLES
    formData,            \* useState {fullName, size, toppings}
    errors,              \* useState {}: field name -> message
    orderSuccess,        \* useState false
    orderMessage,        \* useState ''
    orderFailure,        \* useState false
    isSubmitDisabled,    \* useState true
    isSubmitting,        \* useState false
    touched,             \* useState {}: the keys set to true
    hasAttemptedSubmit,  \* useState false
    validating,          \* snapshots the re-validation effect is awaiting
    submits,             \* snapshots handleSubmit invocations are awaiting
    timer,               \* the auto-revert timeout: "none" or "pending"
    timerOutdated,       \* history: the pending timeout was started for an
                         \* outcome recorded before the one now shown
    sumArgs,             \* the arguments of a call of sum(a, b)
    sumResult            \* what the call did: nothing yet, a return, a throw

\* the cells of the Form component
formVars == <<formData, errors, orderSuccess, orderMessage, orderFailure,
              isSubmitDisabled, isSubmitting, touched, hasAttemptedSubmit,
              validating, submits, timer, timerOutdated>>

\* the call of sum
sumVars == <<sumArgs, sumResult>>

vars == <<formData, errors, orderSuccess, orderMessage, orderFailure,
          isSubmitDisabled, isSubmitting, touched, hasAttemptedSubmit,
          validating, submits, timer, timerOutdated, sumArgs, sumResult>>

-----------------------------------------------------------------------------
(* Bounds of the model *)

\* longest run of letters in a full name fed to validateForm
MaxNameLen == 21
\* most blanks put before and after the letters of a full name
MaxPad == 1
\* longest toppings array fed to validateForm
MaxToppings == 4
\* most validations field changes may leave the re-validation effect
\* awaiting at once (a field change waits until fewer are in flight)
MaxPending == 1
\* longest string passed to sum
MaxStrLen == 2
\* how many checkboxes of the catalog, from the first, are toggled when the
\* toppings are followed
MaxToggled == 2

-----------------------------------------------------------------------------
(* Constants of the program *)

fullNameTooShort == "Full name must be at least 3 characters"
fullNameTooLong == "Full name must be at most 20 characters"
fullNameRequired == "Full name is required"
sizeIncorrect == "size must be S or M or L"
sizeRequired == "size is required"

MinNameLen == 3
MaxNameLength == 20

SizeValues == {"S", "M", "L"}

\* the options of the <select>
SizeOptions == {"", "S", "M", "L"}

toppingsData == <<"1", "2", "3", "4", "5">>

ToppingIds == {toppingsData[i] : i \in DOMAIN toppingsData}

EmptyMap == [k \in {} |-> ""]

EmptyString == <<>>

\* no call of sum has been made
NotCalled == [kind |-> "none"]

initialFormData == [fullName |-> EmptyString, size |-> "", toppings |-> <<>>]

\* a reset that spreads the old formData and clears the two text fields
resetKeepsToppings ==
    [fullName |-> EmptyString, size |-> "", toppings |-> formData.toppings]

\* the object handleSubmit passes to setFormData on success
resetFormData == [fullName |-> EmptyString, size |-> "", toppings |-> <<>>]

-----------------------------------------------------------------------------
(* Strings *)

IsSpace(c) == c = " "

RECURSIVE TrimStart(_)
TrimStart(s) ==
    IF s # <<>> /\ IsSpace(Head(s)) THEN TrimStart(Tail(s)) ELSE s

RECURSIVE TrimEnd(_)
TrimEnd(s) ==
    IF s # <<>> /\ IsSpace(s[Len(s)])
    THEN TrimEnd(SubSeq(s, 1, Len(s) - 1))
    ELSE s

\* String.prototype.trim
Trim(s) == TrimEnd(TrimStart(s))

-----------------------------------------------------------------------------
(* pizzaSchema and validateForm *)

\* One validation error of err.inner
Failure(path, message) == [path |-> path, message |-> message]

\* min(3) taken as "more than 3 characters"
FullNameInnerExclusiveMin(value) ==
    LET v == Trim(value)
    IN  (IF Len(v) > MinNameLen THEN <<>>
         ELSE <<Failure("fullName", fullNameTooShort)>>)
        \o (IF Len(v) <= MaxNameLength THEN <<>>
            ELSE <<Failure("fullName", fullNameTooLong)>>)
        \o (IF Len(v) > 0 THEN <<>>
            ELSE <<Failure("fullName", fullNameRequired)>>)

\* required(..) chained before min and max
FullNameInnerRequiredFirst(value) ==
    LET v == Trim(value)
    IN  (IF Len(v) > 0 THEN <<>>
         ELSE <<Failure("fullName", fullNameRequired)>>)
        \o (IF Len(v) >= MinNameLen THEN <<>>
            ELSE <<Failure("fullName", fullNameTooShort)>>)
        \o (IF Len(v) <= MaxNameLength THEN <<>>
            ELSE <<Failure("fullName", fullNameTooLong)>>)

\* Yup.string().trim().min(3, ..).max(20, ..).required(..): the value is
\* cast (trimmed), then the tests run in the order they were added, all of
\* them (abortEarly: false).
FullNameInner(value) ==
    LET v == Trim(value)
    IN  (IF Len(v) >= MinNameLen THEN <<>>
         ELSE <<Failure("fullName", fullNameTooShort)>>)
        \o (IF Len(v) <= MaxNameLength THEN <<>>
            ELSE <<Failure("fullName", fullNameTooLong)>>)
        \o (IF Len(v) > 0 THEN <<>>
            ELSE <<Failure("fullName", fullNameRequired)>>)

\* the size schema without its oneOf
SizeInnerRequiredOnly(value) ==
    IF value = "" THEN <<Failure("size", sizeRequired)>> ELSE <<>>

\* Yup.string().oneOf(['S','M','L'], ..).required(..): oneOf is checked with
\* the type, before the added tests, which run only when it passes (no
\* value that passes oneOf is empty, so the required test never fails).
SizeInner(value) ==
    IF value \notin SizeValues
    THEN <<Failure("size", sizeIncorrect)>>
    ELSE IF value = "" THEN <<Failure("size", sizeRequired)>> ELSE <<>>

\* a toppings schema that asks for at least one topping
ToppingsInnerMinOne(value) ==
    IF Len(value) = 0
    THEN <<Failure("toppings", "At least one topping must be selected")>>
    ELSE <<>>

\* Yup.array(): any array passes
ToppingsInner(value) == <<>>

\* err.inner of pizzaSchema.validate(data, { abortEarly: false })
SchemaInner(data) ==
    FullNameInner(data.fullName) \o SizeInner(data.size)
        \o ToppingsInner(data.toppings)

\* err.inner.forEach((e) => { newErrors[e.path] = e.message })
RECURSIVE CollectErrors(_, _)
CollectErrors(inner, newErrors) ==
    IF inner = <<>> THEN newErrors
    ELSE LET e == Head(inner)
             rest == [k \in DOMAIN newErrors \ {e.path} |-> newErrors[k]]
         IN  CollectErrors(Tail(inner), rest @@ (e.path :> e.message))

validateForm(data) == CollectErrors(SchemaInner(data), EmptyMap)

\* Object.keys(currentErrors).length
ErrorCount(currentErrors) == Cardinality(DOMAIN currentErrors)

\* the test read from the errors state of the render, not from the result
SubmissionAllowedStale(currentErrors) == ErrorCount(errors) = 0

\* handleSubmit: Object.keys(currentErrors).length === 0
SubmissionAllowed(currentErrors) == ErrorCount(currentErrors) = 0

-----------------------------------------------------------------------------
(* The submit control *)

\* a control disabled by isSubmitDisabled alone
SubmitControlIgnoresSubmitting == isSubmitDisabled

\* <input type="submit" disabled={isSubmitDisabled || isSubmitting} />
SubmitControlDisabled == isSubmitDisabled \/ isSubmitting

-----------------------------------------------------------------------------
(* What the form renders *)

\* {orderSuccess && <div className="success">{orderMessage}</div>}
SuccessBanner == IF orderSuccess THEN <<orderMessage>> ELSE <<>>

\* {orderFailure && <div className="failure">Something went wrong</div>}
FailureBanner == IF orderFailure THEN <<"Something went wrong">> ELSE <<>>

\* the banners above the fields, in the order of the JSX
Banners == SuccessBanner \o FailureBanner

\* the fields that have an error line under them
Fields == {"fullName", "size", "toppings"}

\* the key of touched that the error line of field f reads: touched.fullName,
\* touched.size and, for toppings, touched.topping
TouchedKey(f) == IF f = "toppings" THEN "topping" ELSE f

\* an error line that is rendered whenever errors has the entry
\* ({errors.fullName && ...})
ErrorShownWheneverStored(f) == f \in DOMAIN errors

\* {(hasAttemptedSubmit || touched.f) && errors.f && <div className="error">}
ErrorShown(f) ==
    (hasAttemptedSubmit \/ TouchedKey(f) \in touched) /\ f \in DOMAIN errors

\* the text of the error line of field f
ErrorText(f) == IF ErrorShown(f) THEN <<errors[f]>> ELSE <<>>

-----------------------------------------------------------------------------
(* The confirmation message *)

sizeText(data) ==
    IF data.size = "S" THEN "small"
    ELSE IF data.size = "M" THEN "medium" ELSE "large"

\* the message without its branch for one topping
toppingMessageNoSingular(data) ==
    LET toppingCount == Len(data.toppings)
    IN  IF toppingCount = 0 THEN "with no toppings"
        ELSE "with " \o ToString(toppingCount) \o " toppings"

toppingMessage(data) ==
    LET toppingCount == Len(data.toppings)
    IN  IF toppingCount = 0 THEN "with no toppings"
        ELSE IF toppingCount = 1 THEN "with 1 topping"
        ELSE "with " \o ToString(toppingCount) \o " toppings"

\* the template literal of the success branch, then message.trim()
ConfirmationMessage(data) ==
    Trim(<<"Thank you for your order, ">> \o data.fullName
         \o <<"! Your ", sizeText(data), " pizza ", toppingMessage(data),
              " is on the way.">>)

-----------------------------------------------------------------------------
(* The auto-revert effect, deps [orderSuccess, orderFailure] *)

\* an effect that sets a timeout for the success banner only
TimerAfterSuccessOnly(s, f, s2, f2) ==
    IF <<s, f>> = <<s2, f2>> THEN timer
    ELSE IF s2 THEN "pending" ELSE "none"

\* The timer after a render in which the flags went from (s, f) to (s2, f2):
\* unchanged deps leave the effect alone; changed deps run the cleanup
\* (clearTimeout) and start a timer when a banner is shown.
TimerAfter(s, f, s2, f2) ==
    IF <<s, f>> = <<s2, f2>> THEN timer
    ELSE IF s2 \/ f2 THEN "pending" ELSE "none"

\* Whether the timer left by TimerAfter was started before the outcome
\* recorded in this render: so it is when unchanged deps keep a pending one.
OutdatedAfter(s, f, s2, f2) ==
    IF <<s, f>> = <<s2, f2>> THEN timer = "pending" ELSE FALSE

-----------------------------------------------------------------------------
(* Sequences in flight *)

RemoveAt(seq, i) == SubSeq(seq, 1, i - 1) \o SubSeq(seq, i + 1, Len(seq))

\* the effect of useEffect(.., [formData]) after a render with a new formData
StartValidation(data) == Append(validating, data)

-----------------------------------------------------------------------------
(* Initial state: the first render, whose effects have run *)

Init ==
    /\ formData = initialFormData
    /\ errors = EmptyMap
    /\ orderSuccess = FALSE
    /\ orderMessage = EmptyString
    /\ orderFailure = FALSE
    /\ isSubmitDisabled = TRUE
    /\ isSubmitting = FALSE
    /\ touched = {}
    /\ hasAttemptedSubmit = FALSE
    /\ validating = <<initialFormData>>
    /\ submits = <<>>
    /\ timer = "none"
    /\ timerOutdated = FALSE
    /\ sumArgs = <<>>
    /\ sumResult = NotCalled

-----------------------------------------------------------------------------
(* Event handlers *)

\* an object literal without the spread of formData
SetFieldNoSpread(id, value) == [initialFormData EXCEPT ![id] = value]

\* { ...formData, [id]: value }
SetField(id, value) == [formData EXCEPT ![id] = value]

\* handleChange: e.target.id is "fullName" or "size"
handleChange(id, value) ==
    /\ Len(validating) < MaxPending
    /\ formData' = SetField(id, value)
    /\ touched' = touched \cup {id}
    /\ validating' = StartValidation(formData')
    /\ UNCHANGED <<errors, orderSuccess, orderMessage, orderFailure,
                   isSubmitDisabled, isSubmitting, hasAttemptedSubmit,
                   submits, timer, timerOutdated>>
    /\ UNCHANGED sumVars

\* handleBlur: only the fullName input has onBlur.  A blur of a field that
\* is touched already changes nothing and is left to stuttering.
handleBlur(id) ==
    /\ id \notin touched
    /\ touched' = touched \cup {id}
    /\ UNCHANGED <<formData, errors, orderSuccess, orderMessage, orderFailure,
                   isSubmitDisabled, isSubmitting, hasAttemptedSubmit,
                   validating, submits, timer, timerOutdated>>
    /\ UNCHANGED sumVars

\* a toggle that appends the id whether it is included or not
ToggleToppingAlwaysAppends(currentToppings, toppingValue) ==
    Append(currentToppings, toppingValue)

\* currentToppings.filter((id) => id !== toppingValue)
RECURSIVE FilterOut(_, _)
FilterOut(seq, x) ==
    IF seq = <<>> THEN <<>>
    ELSE IF Head(seq) = x THEN FilterOut(Tail(seq), x)
    ELSE <<Head(seq)>> \o FilterOut(Tail(seq), x)

\* currentToppings.includes(toppingValue)
Includes(seq, x) == \E i \in DOMAIN seq : seq[i] = x

ToggleTopping(currentToppings, toppingValue) ==
    IF Includes(currentToppings, toppingValue)
    THEN FilterOut(currentToppings, toppingValue)
    ELSE Append(currentToppings, toppingValue)

handleToppingChange(toppingId) ==
    /\ Len(validating) < MaxPending
    /\ touched' = touched \cup {"toppings"}
    /\ formData' = [formData EXCEPT
                      !.toppings = ToggleTopping(formData.toppings, toppingId)]
    /\ validating' = StartValidation(formData')
    /\ UNCHANGED <<errors, orderSuccess, orderMessage, orderFailure,
                   isSubmitDisabled, isSubmitting, hasAttemptedSubmit,
                   submits, timer, timerOutdated>>
    /\ UNCHANGED sumVars

\* The re-validation effect resumes after its await for validating[i]
ValidationDone(i) ==
    LET currentErrors == validateForm(validating[i])
    IN  /\ errors' = currentErrors
        /\ isSubmitDisabled' = (ErrorCount(currentErrors) > 0)
        /\ validating' = RemoveAt(validating, i)
        /\ UNCHANGED <<formData, orderSuccess, orderMessage, orderFailure,
                       isSubmitting, touched, hasAttemptedSubmit, submits,
                       timer, timerOutdated>>
        /\ UNCHANGED sumVars

\* handleSubmit up to its await: the form is submitted through the submit
\* control, which a disabled control does not allow
handleSubmit ==
    /\ ~SubmitControlDisabled
    /\ isSubmitting' = TRUE
    /\ hasAttemptedSubmit' = TRUE
    /\ submits' = Append(submits, formData)
    /\ UNCHANGED <<formData, errors, orderSuccess, orderMessage, orderFailure,
                   isSubmitDisabled, touched, validating, timer,
                   timerOutdated>>
    /\ UNCHANGED sumVars

\* The outcomes of the submission step.  This revision fixes `success` to
\* true, the revision before it (the first half of Form.js) draws it with
\* Math.random() > 0.3, and the catch block takes an exception raised in
\* the try block before its first state update; the three branches are kept
\* reachable, which only adds behaviours to those of the fixed outcome.
SubmitOutcomes == {"success", "rejected", "thrown"}

\* a failure branch that sets the failure flag only
RecordFailureKeepsSuccess ==
    /\ orderFailure' = TRUE
    /\ UNCHANGED <<orderSuccess, orderMessage>>

\* the else branch of `if (success)`, and the catch block, which make the
\* same three calls
RecordFailure ==
    /\ orderSuccess' = FALSE
    /\ orderFailure' = TRUE
    /\ orderMessage' = EmptyString

\* isSubmitting left set when the validation finds errors (no else branch)
InFlightAfterNoElse(currentErrors) == ~SubmissionAllowed(currentErrors)

\* isSubmitting at the end of handleSubmit: setIsSubmitting(false) in the
\* finally block and in the else branch
InFlightAfter(currentErrors) == FALSE

\* handleSubmit from its await to its end, for the snapshot submits[i]
SubmitResumed(i, outcome) ==
    LET data == submits[i]
        currentErrors == validateForm(data)
    IN  /\ submits' = RemoveAt(submits, i)
        /\ isSubmitting' = InFlightAfter(currentErrors)
        /\ IF SubmissionAllowed(currentErrors)
           THEN /\ IF outcome = "success"
                   THEN /\ orderMessage' = ConfirmationMessage(data)
                        /\ orderSuccess' = TRUE
                        /\ orderFailure' = FALSE
                        /\ formData' = resetFormData
                        /\ errors' = EmptyMap
                        /\ touched' = {}
                        /\ hasAttemptedSubmit' = FALSE
                        /\ validating' = StartValidation(formData')
                   ELSE IF outcome = "rejected"
                   THEN /\ RecordFailure
                        /\ errors' = currentErrors
                        /\ UNCHANGED <<formData, touched,
                                       hasAttemptedSubmit, validating>>
                   ELSE /\ RecordFailure
                        /\ errors' = currentErrors
                        /\ UNCHANGED <<formData, touched,
                                       hasAttemptedSubmit, validating>>
                /\ timerOutdated' = OutdatedAfter(orderSuccess, orderFailure,
                                                  orderSuccess', orderFailure')
           ELSE /\ errors' = currentErrors
                /\ UNCHANGED <<formData, orderSuccess, orderMessage,
                               orderFailure, touched, hasAttemptedSubmit,
                               validating, timerOutdated>>
        /\ timer' = TimerAfter(orderSuccess, orderFailure,
                               orderSuccess', orderFailure')
        /\ UNCHANGED isSubmitDisabled
        /\ UNCHANGED sumVars

\* the timeout callback that forgets setOrderMessage('')
TimerFiredKeepsMessage ==
    /\ timer = "pending"
    /\ orderSuccess' = FALSE
    /\ orderFailure' = FALSE
    /\ timer' = "none"
    /\ timerOutdated' = FALSE
    /\ UNCHANGED <<formData, errors, isSubmitDisabled, isSubmitting, touched,
                   hasAttemptedSubmit, validating, submits, orderMessage>>
    /\ UNCHANGED sumVars

\* the setTimeout callback of the auto-revert effect
TimerFired ==
    /\ timer = "pending"
    /\ orderSuccess' = FALSE
    /\ orderFailure' = FALSE
    /\ orderMessage' = EmptyString
    /\ timer' = "none"
    /\ timerOutdated' = FALSE
    /\ UNCHANGED <<formData, errors, isSubmitDisabled, isSubmitting, touched,
                   hasAttemptedSubmit, validating, submits>>
    /\ UNCHANGED sumVars

-----------------------------------------------------------------------------
(* Inputs *)

Blanks(n) == [i \in 1..n |-> " "]

\* n letters: "A", "Al", "All", ...
Letters(n) == [i \in 1..n |-> IF i = 1 THEN "A" ELSE "l"]

Name(lead, n, trail) == Blanks(lead) \o Letters(n) \o Blanks(trail)

\* what the user types in the form: nothing, a name one letter too short,
\* the shortest valid name
TypedNames == {Name(0, n, 0) : n \in {0, MinNameLen - 1, MinNameLen}}

\* the checkbox the user toggles in the form: the first of the catalog
ToggledIds == {toppingsData[1]}

-----------------------------------------------------------------------------
(* The form driven by its user *)

ChangeFullName == \E value \in TypedNames : handleChange("fullName", value)

ChangeSize == \E value \in SizeOptions : handleChange("size", value)

BlurFullName == handleBlur("fullName")

ToggleCheckbox == \E id \in ToggledIds : handleToppingChange(id)

Revalidated == \E i \in DOMAIN validating : ValidationDone(i)

Submit == handleSubmit

SubmitCompleted ==
    \E i \in DOMAIN submits : \E outcome \in SubmitOutcomes :
        SubmitResumed(i, outcome)

Next ==
    \/ ChangeFullName
    \/ ChangeSize
    \/ BlurFullName
    \/ ToggleCheckbox
    \/ Revalidated
    \/ Submit
    \/ SubmitCompleted
    \/ TimerFired

Spec == Init /\ [][Next]_vars

\* The form with the submission step as this revision writes it:
\* const success = true
SubmitSucceeded == \E i \in DOMAIN submits : SubmitResumed(i, "success")

NextAsWritten ==
    \/ ChangeFullName
    \/ ChangeSize
    \/ BlurFullName
    \/ ToggleCheckbox
    \/ Revalidated
    \/ Submit
    \/ SubmitSucceeded
    \/ TimerFired

SpecAsWritten == Init /\ [][NextAsWritten]_vars

\* The event loop runs what is due: an awaited validation resolves, and a
\* pending timeout fires.  Nothing obliges the user to act.
Fairness ==
    /\ WF_vars(Revalidated)
    /\ WF_vars(SubmitCompleted)
    /\ WF_vars(TimerFired)

\* the user fills the two fields an order needs
TypeValidName == handleChange("fullName", Name(0, MinNameLen, 0))

ChooseSmall == handleChange("size", "S")

\* The form under that fairness, with the user filling in one order again
\* and again, submitting it at any moment the control allows
NextLive ==
    \/ TypeValidName
    \/ ChooseSmall
    \/ ToggleCheckbox
    \/ Revalidated
    \/ Submit
    \/ SubmitCompleted
    \/ TimerFired

SpecLive == Init /\ [][NextLive]_vars /\ Fairness

-----------------------------------------------------------------------------
(* The toppings followed over several checkboxes: the user toggles any of   *)
(* the first MaxToggled checkboxes, in any order, among the other events of *)
(* the form.                                                                *)

ToggledCatalog == {toppingsData[i] : i \in 1..MaxToggled}

ToggleAnyCheckbox == \E id \in ToggledCatalog : handleToppingChange(id)

NextToppings ==
    \/ TypeValidName
    \/ ChooseSmall
    \/ ToggleAnyCheckbox
    \/ Revalidated
    \/ Submit
    \/ SubmitSucceeded
    \/ TimerFired

SpecToppings == Init /\ [][NextToppings]_vars

-----------------------------------------------------------------------------
(* sum(a, b) of the test module.  A JavaScript value is a record: t is its   *)
(* type (NaN apart from the other numbers), n the value of a number or a    *)
(* boolean (1 / 0), s the characters of a string.                           *)

Undefined == [t |-> "undefined", n |-> 0, s |-> <<>>]
Null == [t |-> "null", n |-> 0, s |-> <<>>]
NaN == [t |-> "NaN", n |-> 0, s |-> <<>>]
Num(n) == [t |-> "number", n |-> n, s |-> <<>>]
Bool(b) == [t |-> "boolean", n |-> IF b THEN 1 ELSE 0, s |-> <<>>]
Str(s) == [t |-> "string", n |-> 0, s |-> s]

Digits == {"0", "1", "3"}

DigitValue(c) == CASE c = "0" -> 0 [] c = "1" -> 1 [] c = "3" -> 3

\* the value of a non-empty run of decimal digits
RECURSIVE DecimalValue(_)
DecimalValue(ds) ==
    IF Len(ds) = 1 THEN DigitValue(ds[1])
    ELSE 10 * DecimalValue(SubSeq(ds, 1, Len(ds) - 1)) + DigitValue(ds[Len(ds)])

IsDecimal(ds) == ds # <<>> /\ \A i \in DOMAIN ds : ds[i] \in Digits

\* StringToNumber: white space is stripped; the empty string is 0; an
\* optional sign and decimal digits are their value; anything else is NaN
StringToNumber(str) ==
    LET t == Trim(str)
    IN  IF t = <<>> THEN Num(0)
        ELSE IF t[1] = "-" /\ IsDecimal(Tail(t)) THEN Num(0 - DecimalValue(Tail(t)))
        ELSE IF IsDecimal(t) THEN Num(DecimalValue(t))
        ELSE NaN

\* Number(x)
Number(x) ==
    CASE x.t = "undefined" -> NaN
      [] x.t = "null" -> Num(0)
      [] x.t = "boolean" -> Num(x.n)
      [] x.t = "number" -> x
      [] x.t = "NaN" -> NaN
      [] x.t = "string" -> StringToNumber(x.s)

isNaN(x) == x.t = "NaN"

Returned(value) == [kind |-> "return", value |-> value]
Thrown(message) == [kind |-> "throw", message |-> message]

sum(a, b) ==
    LET a2 == Number(a)
        b2 == Number(b)
    IN  IF isNaN(a2) \/ isNaN(b2)
        THEN Thrown("pass valid numbers")
        ELSE Returned(a2.n + b2.n)

\* the characters of the strings passed to sum
SumChars == Digits \cup {"-", " ", "s"}

SumStrings == UNION {[1..n -> SumChars] : n \in 0..MaxStrLen}

\* the arguments: a missing one is undefined
SumInputs ==
    {Undefined, Null, NaN, Bool(TRUE), Bool(FALSE)}
        \cup {Num(n) : n \in {-1, 0, 1, 2, 3}}
        \cup {Str(str) : str \in SumStrings}

InitSum ==
    /\ formData = initialFormData
    /\ errors = EmptyMap
    /\ orderSuccess = FALSE
    /\ orderMessage = EmptyString
    /\ orderFailure = FALSE
    /\ isSubmitDisabled = TRUE
    /\ isSubmitting = FALSE
    /\ touched = {}
    /\ hasAttemptedSubmit = FALSE
    /\ validating = <<>>
    /\ submits = <<>>
    /\ timer = "none"
    /\ timerOutdated = FALSE
    /\ sumArgs \in SumInputs \X SumInputs
    /\ sumResult = NotCalled

CallSum ==
    /\ sumResult = NotCalled
    /\ sumResult' = sum(sumArgs[1], sumArgs[2])
    /\ UNCHANGED sumArgs
    /\ UNCHANGED formVars

NextSum == CallSum

SpecSum == InitSum /\ [][NextSum]_vars

-----------------------------------------------------------------------------
(* validateForm and the message on bounded inputs: the form is mounted      *)
(* holding an arbitrary FormState, whose validation is in flight, and the   *)
(* user only submits.                                                       *)

\* n letters with a blank inside: "A l", "A ll", ...
SpacedLetters(n) == [i \in 1..n |-> IF i = 2 /\ n > 2 THEN " " ELSE Letters(n)[i]]

NameInputs ==
    {Name(lead, n, trail) :
        lead \in 0..MaxPad, n \in 0..MaxNameLen, trail \in 0..MaxPad}
    \cup {Blanks(lead) \o SpacedLetters(n) \o Blanks(trail) :
            lead \in 0..MaxPad, n \in 3..MaxNameLen, trail \in 0..MaxPad}

\* the options of the select, and values it does not offer
SizeInputs == SizeOptions \cup {"XL", "s"}

\* runs of the catalog, in catalog order
ToppingsInputs ==
    {SubSeq(toppingsData, i, j) :
        i \in DOMAIN toppingsData, j \in 0..Len(toppingsData)}
    \cap {t \in Seq(ToppingIds) : Len(t) <= MaxToppings}

FormDataInputs ==
    [fullName : NameInputs, size : SizeInputs, toppings : ToppingsInputs]

InitValidate ==
    /\ formData \in FormDataInputs
    /\ errors = EmptyMap
    /\ orderSuccess = FALSE
    /\ orderMessage = EmptyString
    /\ orderFailure = FALSE
    /\ isSubmitDisabled = TRUE
    /\ isSubmitting = FALSE
    /\ touched = {}
    /\ hasAttemptedSubmit = FALSE
    /\ validating = <<formData>>
    /\ submits = <<>>
    /\ timer = "none"
    /\ timerOutdated = FALSE
    /\ sumArgs = <<>>
    /\ sumResult = NotCalled

NextValidate ==
    \/ Revalidated
    \/ Submit
    \/ SubmitCompleted
    \/ TimerFired

SpecValidate == InitValidate /\ [][NextValidate]_vars

-----------------------------------------------------------------------------
(* Vocabulary of the properties, stated without the operators of the model  *)

\* no validation and no submission is awaiting its result
Settled == validating = <<>> /\ submits = <<>>

\* the length of s without its leading and trailing blanks
TrimmedLength(s) ==
    LET letters == {i \in DOMAIN s : s[i] # " "}
    IN  IF letters = {} THEN 0
        ELSE (CHOOSE i \in letters : \A j \in letters : j <= i)
             - (CHOOSE i \in letters : \A j \in letters : i <= j) + 1

CatalogIds == {"1", "2", "3", "4", "5"}

FullNameValid(data) ==
    TrimmedLength(data.fullName) >= 3 /\ TrimmedLength(data.fullName) <= 20

SizeValid(data) == data.size \in {"S", "M", "L"}

ValidFormState(data) ==
    /\ FullNameValid(data)
    /\ SizeValid(data)
    /\ \A i \in DOMAIN data.toppings : data.toppings[i] \in CatalogIds

\* the fields of data that violate their own rule
ViolatingFields(data) ==
    (IF FullNameValid(data) THEN {} ELSE {"fullName"})
        \cup (IF SizeValid(data) THEN {} ELSE {"size"})

\* handleSubmit resumed for the snapshot submits[i] in this step
Resumed(i) == submits' = RemoveAt(submits, i)

-----------------------------------------------------------------------------
(* C1 - C4: the submit control *)

\* C1: in every reachable state, if the current FormState violates a
\* validation rule or a submission is in flight, the submit control is
\* disabled.
C1_DisabledWhileInvalidOrSubmitting ==
    (validateForm(formData) # EmptyMap \/ isSubmitting)
        => (isSubmitDisabled \/ isSubmitting)

\* C2: in every reachable state, a non-empty stored errors mapping means a
\* disabled submit control, whatever touched and hasAttemptedSubmit are.
C2_DisabledWhileErrorsStored ==
    errors # EmptyMap => (isSubmitDisabled \/ isSubmitting)

\* a banner or a message is produced in this step
OutcomeProduced ==
    \/ orderSuccess' /\ ~orderSuccess
    \/ orderFailure' /\ ~orderFailure
    \/ orderMessage' # orderMessage /\ orderMessage' # EmptyString

\* C3: an outcome is produced only by a handleSubmit whose own validation of
\* its snapshot returned the empty mapping; a handleSubmit whose validation
\* returned an error sets no outcome flag and no message, keeps FormState
\* and clears the in-flight flag.
C3_OutcomeOnlyForValidSnapshot ==
    [][ /\ OutcomeProduced =>
             \E i \in DOMAIN submits :
                 Resumed(i) /\ validateForm(submits[i]) = EmptyMap
        /\ \A i \in DOMAIN submits :
             (Resumed(i) /\ validateForm(submits[i]) # EmptyMap) =>
                 /\ UNCHANGED <<orderSuccess, orderFailure, orderMessage,
                                formData>>
                 /\ errors' = validateForm(submits[i])
                 /\ ~isSubmitting'
      ]_vars

\* a handleSubmit found errors in its snapshot: errors are stored while the
\* control was enabled, and no banner is shown
C3_BlockedSubmit ==
    /\ Settled
    /\ hasAttemptedSubmit
    /\ errors # EmptyMap
    /\ ~isSubmitDisabled
    /\ ~isSubmitting
    /\ ~orderSuccess
    /\ ~orderFailure

\* C4: at most one handleSubmit is awaiting its validation; while one is,
\* the in-flight flag is set, the submit control is disabled and no other
\* handleSubmit can start; the flag is set only while one is awaiting.
C4_OneSubmissionOutstanding ==
    /\ Len(submits) <= 1
    /\ isSubmitting <=> submits # <<>>
    /\ submits # <<>> =>
          /\ isSubmitDisabled \/ isSubmitting
          /\ ~ENABLED handleSubmit

\* a submission is in flight while a field change is being re-validated, an
\* earlier banner is shown and its timer is pending
C4_InFlightAmongOtherEvents ==
    /\ Len(submits) = 1
    /\ validating # <<>>
    /\ formData # submits[1]
    /\ timer = "pending"

-----------------------------------------------------------------------------
(* C5 - C8: validateForm *)

\* C5: a FormState whose trimmed fullName has 3 to 20 characters, whose size
\* is S, M or L and whose toppings are catalog ids (none included) has no
\* validation error: validateForm returns the empty mapping, which is what
\* the form stores once its validation completes.
C5_ValidFormHasNoErrors ==
    ValidFormState(formData) =>
        /\ validateForm(formData) = EmptyMap
        /\ Settled => errors = EmptyMap

C5_PaddedLongestNameAccepted ==
    /\ Settled
    /\ ValidFormState(formData)
    /\ TrimmedLength(formData.fullName) = 20
    /\ Len(formData.fullName) > 20
    /\ formData.toppings = <<>>
    /\ errors = EmptyMap
    /\ ~isSubmitDisabled
    /\ ~hasAttemptedSubmit

\* the fullName entry that a trimmed length of n calls for
FullNameEntry(e, n) ==
    IF n = 0
    THEN "fullName" \in DOMAIN e /\ e["fullName"] = "Full name is required"
    ELSE IF n < 3
    THEN /\ "fullName" \in DOMAIN e
         /\ e["fullName"] = "Full name must be at least 3 characters"
    ELSE IF n > 20
    THEN /\ "fullName" \in DOMAIN e
         /\ e["fullName"] = "Full name must be at most 20 characters"
    ELSE "fullName" \notin DOMAIN e

\* C6: the fullName entry of the mapping validateForm returns depends on the
\* trimmed length of fullName alone: length 1 or 2 gives the too-short
\* message, above 20 the too-long one, 3 to 20 no entry, and 0 (an empty or
\* all-blank name) the required message.
C6_FullNameEntryByTrimmedLength ==
    /\ FullNameEntry(validateForm(formData), TrimmedLength(formData.fullName))
    /\ Settled => FullNameEntry(errors, TrimmedLength(formData.fullName))

C6_BlankNameIsRequired ==
    /\ Settled
    /\ formData.fullName # <<>>
    /\ TrimmedLength(formData.fullName) = 0
    /\ "fullName" \in DOMAIN errors
    /\ errors["fullName"] = "Full name is required"
    /\ isSubmitDisabled

\* C7: a FormState whose size is empty or any value other than S, M, L has a
\* size entry in the mapping validateForm returns, whatever fullName and
\* toppings are.
C7_BadSizeHasEntry ==
    formData.size \notin {"S", "M", "L"} =>
        /\ "size" \in DOMAIN validateForm(formData)
        /\ Settled => "size" \in DOMAIN errors

C7_UnknownSizeRejected ==
    /\ Settled
    /\ formData.size = "XL"
    /\ FullNameValid(formData)
    /\ formData.toppings # <<>>
    /\ DOMAIN errors = {"size"}
    /\ isSubmitDisabled

AlMediumNoToppings ==
    [fullName |-> <<"A", "l">>, size |-> "M", toppings |-> <<>>]

\* C8: the keys of the errors mapping are exactly the fields that violate
\* their own rule, and an empty toppings selection gives no toppings entry;
\* fullName 'Al', size 'M', toppings [] gives exactly the too-short message
\* for fullName, and the submit control is disabled once that validation
\* has completed.
C8_KeysAreTheViolatingFields ==
    /\ DOMAIN validateForm(formData) = ViolatingFields(formData)
    /\ Settled => DOMAIN errors = ViolatingFields(formData)
    /\ (Settled /\ formData = AlMediumNoToppings) =>
          /\ errors = [fullName |-> "Full name must be at least 3 characters"]
          /\ isSubmitDisabled \/ isSubmitting

C8_AlMediumValidated ==
    /\ Settled
    /\ formData = AlMediumNoToppings
    /\ DOMAIN errors = {"fullName"}
    /\ isSubmitDisabled

-----------------------------------------------------------------------------
(* C9, C10: a successful submission *)

\* C9: the step in which a submission succeeds (handleSubmit resumes for a
\* valid snapshot and stores a confirmation message) leaves FormState at
\* {fullName: '', size: '', toppings: []}, touched empty and
\* hasAttemptedSubmit false, sets the success flag and clears the failure
\* flag, whatever was edited while the submit was in flight.
C9_SuccessResetsForm ==
    [][ \A i \in DOMAIN submits :
          (/\ Resumed(i)
           /\ validateForm(submits[i]) = EmptyMap
           /\ orderMessage' # EmptyString) =>
              /\ formData' = [fullName |-> <<>>, size |-> "", toppings |-> <<>>]
              /\ touched' = {}
              /\ ~hasAttemptedSubmit'
              /\ orderSuccess'
              /\ ~orderFailure'
      ]_vars

\* a submission has succeeded after the toppings were edited while it was in
\* flight: the re-validation of the edit and that of the reset are pending
C9_SucceededAfterEditInFlight ==
    /\ orderSuccess
    /\ ~orderFailure
    /\ submits = <<>>
    /\ formData = [fullName |-> <<>>, size |-> "", toppings |-> <<>>]
    /\ touched = {}
    /\ ~hasAttemptedSubmit
    /\ Len(validating) = 2
    /\ validating[1].toppings # <<>>
    /\ validating[2] = formData

ExpectedSizeText(size) ==
    CASE size = "S" -> "small"
      [] size = "M" -> "medium"
      [] size = "L" -> "large"

ExpectedToppingText(n) ==
    CASE n = 0 -> "with no toppings"
      [] n = 1 -> "with 1 topping"
      [] n = 2 -> "with 2 toppings"
      [] n = 3 -> "with 3 toppings"
      [] n = 4 -> "with 4 toppings"
      [] n = 5 -> "with 5 toppings"

ExpectedMessage(data) ==
    <<"Thank you for your order, ">> \o data.fullName
        \o <<"! Your ", ExpectedSizeText(data.size), " pizza ",
             ExpectedToppingText(Len(data.toppings)), " is on the way.">>

\* C10: the confirmation message stored by a successful submission is made
\* from the submitted snapshot alone: its fullName, small / medium / large
\* for S / M / L, and 'no toppings', '1 topping' or 'N toppings' for 0, 1 or
\* N >= 2 toppings; the reset of the form in the same step does not alter it.
C10_MessageFromSnapshot ==
    [][ \A i \in DOMAIN submits :
          (/\ Resumed(i)
           /\ validateForm(submits[i]) = EmptyMap
           /\ orderSuccess') =>
              /\ orderMessage' = ExpectedMessage(submits[i])
              /\ formData' # submits[i]
      ]_vars

\* the banner of an order of a large pizza with two toppings, under a name
\* typed with a blank before it
C10_TwoToppingsBanner ==
    /\ orderSuccess
    /\ Len(orderMessage) > 6
    /\ orderMessage[2] = " "
    /\ orderMessage[Len(orderMessage) - 3] = "large"
    /\ orderMessage[Len(orderMessage) - 1] = "with 2 toppings"
    /\ formData.toppings = <<>>

-----------------------------------------------------------------------------
(* C11 - C13: the outcome banners and their timer *)

\* C11: the step in which a submission is rejected, or its submission step
\* throws (handleSubmit resumes for a valid snapshot and does not reset the
\* form, so that no re-validation starts), leaves FormState as it was, sets
\* the failure flag, clears the success flag and the message, and the only
\* banner rendered is 'Something went wrong'.
C11_FailureKeepsForm ==
    [][ \A i \in DOMAIN submits :
          (/\ Resumed(i)
           /\ validateForm(submits[i]) = EmptyMap
           /\ validating' = validating) =>
              /\ formData' = formData
              /\ orderFailure'
              /\ ~orderSuccess'
              /\ orderMessage' = <<>>
              /\ Banners' = <<"Something went wrong">>
      ]_vars

\* a submission has failed: the form still holds the valid order that was
\* submitted, its timer runs and only the failure banner is rendered
C11_FailedSubmission ==
    /\ orderFailure
    /\ ~orderSuccess
    /\ timer = "pending"
    /\ ~timerOutdated
    /\ submits = <<>>
    /\ hasAttemptedSubmit
    /\ validateForm(formData) = EmptyMap
    /\ touched = {"fullName", "size"}
    /\ Banners = <<"Something went wrong">>

\* a banner is rendered
BannerVisible == Banners # <<>>

\* C12: a banner is rendered in the very step that records its outcome, and
\* from then on a timeout is pending for it; once a banner is rendered, the
\* event loop alone (no user action is required) leads to a state in which
\* none is; and the step that takes the banner away is the timeout, which
\* resets the success flag, the failure flag and the message together and
\* touches nothing else of the form.
C12_BannerShownThenCleared ==
    /\ [](BannerVisible <=> timer = "pending")
    /\ [][ (\E i \in DOMAIN submits :
               Resumed(i) /\ validateForm(submits[i]) = EmptyMap)
             => BannerVisible' ]_vars
    /\ [][ (BannerVisible /\ ~BannerVisible') =>
              /\ ~orderSuccess'
              /\ ~orderFailure'
              /\ orderMessage' = <<>>
              /\ timer' = "none"
              /\ UNCHANGED <<formData, errors, touched, hasAttemptedSubmit,
                             isSubmitting, isSubmitDisabled>> ]_vars
    /\ BannerVisible ~> ~BannerVisible

\* the success banner is rendered over the form that the submission has
\* reset, nothing is awaited any more and the timeout is the only event due
C12_BannerAwaitingTimeout ==
    /\ BannerVisible
    /\ orderSuccess
    /\ Settled
    /\ timer = "pending"
    /\ ~timerOutdated
    /\ formData = resetFormData
    /\ errors # EmptyMap
    /\ ~ENABLED Submit

\* handleSubmit records an outcome in this step
OutcomeRecorded ==
    \E i \in DOMAIN submits :
        Resumed(i) /\ validateForm(submits[i]) = EmptyMap

\* C13: every step that records an outcome leaves a pending timeout that was
\* started in that step (an earlier one is cleared), whether the outcome is
\* of the kind already shown or of the other kind, so that a banner is never
\* taken away by a timeout started for an earlier outcome.
C13_EachOutcomeRestartsTimer ==
    [][ /\ OutcomeRecorded => (timer' = "pending" /\ ~timerOutdated')
        /\ (BannerVisible /\ ~BannerVisible') => ~timerOutdated
      ]_vars

-----------------------------------------------------------------------------
(* C14: the inline error lines *)

\* no error line is rendered
NoErrorText == \A f \in {"fullName", "size", "toppings"} : ErrorText(f) = <<>>

\* a re-validation resolves, or the timeout fires, in this step
NoInteraction ==
    \/ /\ \E i \in DOMAIN validating : validating' = RemoveAt(validating, i)
       /\ submits' = submits
    \/ timer = "pending" /\ timer' = "none"

-----------------------------------------------------------------------------
(* C15: sum *)

\* a number other than NaN, or a string that writes one in decimal digits,
\* with or without a sign and blanks around it
IsValidNumber(x) ==
    \/ x.t = "number"
    \/ /\ x.t = "string"
       /\ LET letters == {i \in DOMAIN x.s : x.s[i] # " "}
              lo == CHOOSE i \in letters : \A j \in letters : i <= j
              hi == CHOOSE i \in letters : \A j \in letters : j <= i
              first == IF x.s[lo] = "-" THEN lo + 1 ELSE lo
          IN  /\ letters # {}
              /\ first <= hi
              /\ \A i \in first..hi : x.s[i] \in {"0", "1", "3"}

\* the number a valid number stands for
ValueOf(x) ==
    IF x.t = "number" THEN x.n
    ELSE CHOOSE v \in (0 - 10^MaxStrLen)..(10^MaxStrLen) :
             StringToNumber(x.s) = Num(v)

\* C15: a call of sum throws 'pass valid numbers' when one of its arguments
\* is missing or is not a valid number, and otherwise returns the sum of the
\* numbers its arguments stand for.
C15_SumThrowsUnlessValidNumbers ==
    sumResult # NotCalled =>
        IF IsValidNumber(sumArgs[1]) /\ IsValidNumber(sumArgs[2])
        THEN sumResult = Returned(ValueOf(sumArgs[1]) + ValueOf(sumArgs[2]))
        ELSE sumResult = Thrown("pass valid numbers")

\* the cases of the test module: sum() and sum(2, 'seven') throw, sum(1, 3)
\* is 4, sum('1', 2) is 3 and sum('10', '3') is 13
SumTestsPass ==
    /\ sum(Undefined, Undefined) = Thrown("pass valid numbers")
    /\ sum(Num(2), Str(<<"s", "e", "v", "e", "n">>)) = Thrown("pass valid numbers")
    /\ sum(Num(1), Num(3)) = Returned(4)
    /\ sum(Str(<<"1">>), Num(2)) = Returned(3)
    /\ sum(Str(<<"1", "0">>), Str(<<"3">>)) = Returned(13)

-----------------------------------------------------------------------------
(* C16: validations that resolve late *)

\* C16: once no validation is awaited, errors is the validation of the
\* current FormState and isSubmitDisabled tells whether it has errors: the
\* result for an older snapshot is never left over that for a newer one.
C16_SettledErrorsAreCurrent ==
    Settled =>
        /\ errors = validateForm(formData)
        /\ isSubmitDisabled <=> validateForm(formData) # EmptyMap

-----------------------------------------------------------------------------
(* C17: the toppings *)

\* the ids held by a toppings array
IdsOf(toppings) == {toppings[i] : i \in DOMAIN toppings}

\* C17: in every reachable state formData.toppings holds no id twice and
\* only ids of the catalog '1' .. '5'; a toggle of a checkbox adds its id
\* when it is absent and removes it when it is present, leaving the other
\* ids; and the toppings change in no other step but that of the reset.
C17_ToppingsAreASetOfCatalogIds ==
    /\ [](/\ Cardinality(IdsOf(formData.toppings)) = Len(formData.toppings)
          /\ IdsOf(formData.toppings) \subseteq {"1", "2", "3", "4", "5"})
    /\ [][ /\ \A id \in {"1", "2", "3", "4", "5"} :
                handleToppingChange(id) =>
                    IdsOf(formData'.toppings) =
                        IF id \in IdsOf(formData.toppings)
                        THEN IdsOf(formData.toppings) \ {id}
                        ELSE IdsOf(formData.toppings) \cup {id}
           /\ formData'.toppings # formData.toppings =>
                \/ \E id \in {"1", "2", "3", "4", "5"} : handleToppingChange(id)
                \/ formData'.toppings = <<>>
         ]_vars

\* the second and the first checkbox are ticked, in this order, over the form
\* that a successful order with toppings has reset
C17_ToggledAfterReset ==
    /\ formData.toppings = <<"2", "1">>
    /\ orderSuccess
    /\ Len(orderMessage) > 2
    /\ orderMessage[Len(orderMessage) - 1] # "with no toppings"
    /\ Settled

-----------------------------------------------------------------------------
(* C18: what changes FormState *)

\* the fields of FormState that this step alters
AlteredFields == {k \in DOMAIN formData : formData'[k] # formData[k]}

\* handleSubmit resumes in this step and records no success: its validation
\* found errors, or the submission was rejected or threw
SubmitWithoutSuccess ==
    \E i \in DOMAIN submits :
        Resumed(i) /\ (validateForm(submits[i]) # EmptyMap \/ ~orderSuccess')

\* C18: FormState changes only in a field-change handler and in the reset
\* of a successful submission: a change of the text input or of the select
\* alters only the field named by the id of the event, a toggle alters only
\* toppings; a resolved re-validation, the timeout, a blur, the start of a
\* submit, a blocked submit and a failed submit leave FormState as it was.
C18_FormStateChangedByHandlersOnly ==
    [][ /\ formData' # formData =>
              \/ ChangeFullName /\ AlteredFields = {"fullName"}
              \/ ChangeSize /\ AlteredFields = {"size"}
              \/ ToggleCheckbox /\ AlteredFields = {"toppings"}
              \/ /\ OutcomeRecorded
                 /\ orderSuccess'
                 /\ formData' = [fullName |-> <<>>, size |-> "", toppings |-> <<>>]
        /\ ChangeFullName => AlteredFields \subseteq {"fullName"}
        /\ ChangeSize => AlteredFields \subseteq {"size"}
        /\ ToggleCheckbox => AlteredFields = {"toppings"}
        /\ (NoInteraction \/ BlurFullName \/ Submit \/ SubmitWithoutSuccess)
              => AlteredFields = {}
      ]_vars

\* a whole order is in the form, each field set by its own event, and it is
\* still there after the submission of it has failed
C18_OrderKeptThroughFailure ==
    /\ formData = [fullName |-> <<"A", "l", "l">>, size |-> "L",
                   toppings |-> <<"1">>]
    /\ touched = {"fullName", "size", "toppings"}
    /\ orderFailure
    /\ Settled

-----------------------------------------------------------------------------
(* C19 - C20: the outcome cells and the in-flight flag *)

\* C19: in every reachable state the success flag and the failure flag are
\* not both set, and the confirmation message is non-empty exactly when the
\* success flag is set: it is empty before any outcome, after a failure and
\* after the timeout.
C19_OutcomeCellsAgree ==
    /\ ~(orderSuccess /\ orderFailure)
    /\ orderMessage # <<>> <=> orderSuccess

\* a second submission in a row has failed while the timeout of the first
\* failure is still pending
C19_FailedTwiceInARow ==
    /\ orderFailure
    /\ ~orderSuccess
    /\ orderMessage = <<>>
    /\ timer = "pending"
    /\ timerOutdated
    /\ Settled

\* C20: a submit attempt that has started leads to a state in which the
\* in-flight flag is clear, whichever way handleSubmit ends (errors found,
\* success, rejection, exception): the step in which handleSubmit ends
\* clears the flag, and the flag is never set while no handleSubmit is
\* awaiting, so that isSubmitting does not keep the submit control disabled.
C20_InFlightFlagCleared ==
    /\ [][ (\E i \in DOMAIN submits : Resumed(i)) => ~isSubmitting' ]_vars
    /\ [](submits = <<>> => ~isSubmitting)
    /\ isSubmitting ~> ~isSubmitting

\* a handleSubmit has ended on errors in its snapshot: the flag is clear and
\* the control, which the re-validation had left enabled, can be used again
C20_ControlUsableAfterBlockedSubmit ==
    /\ hasAttemptedSubmit
    /\ errors # EmptyMap
    /\ submits = <<>>
    /\ ~isSubmitting
    /\ ~SubmitControlDisabled
    /\ ENABLED Submit

====
